---- MODULE Spec2Model ----
(***************************************************************************)
(* A model of md2conf's SVG post-processing (src/md2conf/svg.py).          *)
(*                                                                         *)
(* Text is a sequence of lexemes (TLA+ strings), each standing for its     *)
(* literal characters.  The lexemes are chosen so that every character the *)
(* code looks at on its own is a lexeme of its own: ">" (the end of the    *)
(* regular expression <svg\b[^>]*>), the double quote, ";" and the         *)
(* separators of a viewBox.  Numbers are exact rationals in tenths.        *)
(***************************************************************************)
EXTENDS Integers, Sequences, FiniteSets, TLC

VARIABLES
    original,   \* the bytes first handed to the pipeline
    before,     \* the bytes handed to the last transform
    current,    \* the bytes the last transform returned (the original ones at first)
    ops,        \* the transforms applied so far, in order
    outcome,    \* how the last transform ended: its Return or the exception it raised
    fKind,      \* a call of a helper: "length", "viewbox", "extract", "wrap" or "idle"
    fIn,        \* ... its argument
    fOut,       \* ... what it returned or raised, Pending before
    wPc,        \* _word_wrap_text: "start", "loop", "finish" or "done"
    wRest,      \* ... the words the for loop has still to visit
    wAcc        \* ... lines, current_line and current_width

vars == <<original, before, current, ops, outcome, fKind, fIn, fOut, wPc, wRest, wAcc>>
pipelineVars == <<original, before, current, ops, outcome>>
helperVars == <<fKind, fIn, fOut>>
wrapVars == <<wPc, wRest, wAcc>>

SVG_NAMESPACE == "http://www.w3.org/2000/svg"

(***************************************************************************)
(* Python values.                                                          *)
(***************************************************************************)
None == [t |-> "None"]
PyInt(n) == [t |-> "int", v |-> n]
Raise(e) == [t |-> "raise", e |-> e]
Pending == [t |-> "pending"]

IsNone(x) == x.t = "None"
IsInt(x) == x.t = "int"
IsRaise(x) == x.t = "raise"

(***************************************************************************)
(* Sequence helpers.                                                       *)
(***************************************************************************)
Range(s) == {s[i] : i \in 1..Len(s)}

Slice(s, a, b) == IF a > b THEN <<>> ELSE SubSeq(s, a, b)

\* whitespace as str.strip() and \s see it
Whitespace == {" ", "\n", "\t"}

RECURSIVE LStrip(_)
LStrip(s) ==
    IF s # <<>> /\ Head(s) \in Whitespace THEN LStrip(Tail(s)) ELSE s

RECURSIVE RStrip(_)
RStrip(s) ==
    IF s # <<>> /\ s[Len(s)] \in Whitespace
    THEN RStrip(SubSeq(s, 1, Len(s) - 1))
    ELSE s

\* str.strip()
Strip(s) == LStrip(RStrip(s))

(***************************************************************************)
(* Numbers: float(str), round() and int() of Python.                       *)
(* A finite float is a rational [num, den] with den > 0.                   *)
(***************************************************************************)

\* the largest integer numeral the documents write out
MaxNumeral == 120

\* the lexemes \d+\.?\d*|\.\d+ matches, with their value in tenths
DecimalTenths ==
    [x \in {ToString(n) : n \in 0..MaxNumeral} \cup {"2.5", "3.5", "10.5", ".5", "10."} |->
        CASE x = "2.5" -> 25
          [] x = "3.5" -> 35
          [] x = "10.5" -> 105
          [] x = ".5" -> 5
          [] x = "10." -> 100
          [] OTHER -> 10 * (CHOOSE n \in 0..MaxNumeral : ToString(n) = x)]

\* a numeral of 400 digits: \d+ matches it and float() makes it inf
HugeNumeral == "9{400}"

Decimals == DOMAIN DecimalTenths \cup {HugeNumeral}

Finite(n, d) == [t |-> "float", num |-> n, den |-> d]
Inf == [t |-> "inf", neg |-> FALSE]
NegInf == [t |-> "inf", neg |-> TRUE]
NaN == [t |-> "nan"]

\* float() of one unsigned lexeme
FloatOfLexeme(x) ==
    IF x \in DOMAIN DecimalTenths THEN Finite(DecimalTenths[x], 10)
    ELSE IF x = HugeNumeral \/ x \in {"inf", "Infinity", "1e999"} THEN Inf
    ELSE IF x = "nan" THEN NaN
    ELSE Raise("ValueError")

Negate(f) ==
    IF f.t = "float" THEN Finite(0 - f.num, f.den)
    ELSE IF f.t = "inf" THEN [f EXCEPT !.neg = ~@]
    ELSE f

\* float(s): surrounding whitespace is ignored, one optional sign
PyFloat(s) ==
    LET u == Strip(s) IN
    IF Len(u) = 1 THEN FloatOfLexeme(u[1])
    ELSE IF Len(u) = 2 /\ u[1] = "+" THEN FloatOfLexeme(u[2])
    ELSE IF Len(u) = 2 /\ u[1] = "-" THEN Negate(FloatOfLexeme(u[2]))
    ELSE Raise("ValueError")

\* floor of n/d for d > 0
FloorDiv(n, d) == n \div d

\* int(round(f)): round half to even; NaN and infinity raise
IntRound(f) ==
    CASE f.t = "nan" -> Raise("ValueError")
      [] f.t = "inf" -> Raise("OverflowError")
      [] f.t = "float" ->
            LET q == FloorDiv(f.num, f.den)
                r == f.num - q * f.den
            IN  IF 2 * r < f.den THEN PyInt(q)
                ELSE IF 2 * r > f.den THEN PyInt(q + 1)
                ELSE IF q % 2 = 0 THEN PyInt(q) ELSE PyInt(q + 1)
      [] OTHER -> f

RECURSIVE Gcd(_, _)
Gcd(a, b) == IF b = 0 THEN a ELSE Gcd(b, a % b)

\* n/d in lowest terms
Reduced(n, d) ==
    LET g == Gcd(IF n < 0 THEN 0 - n ELSE n, d) IN
    IF g = 0 THEN Finite(0, 1) ELSE Finite(n \div g, d \div g)

\* f * a / b for integers a >= 0 and b > 0
Scale(f, a, b) ==
    IF f.t = "float" THEN Reduced(f.num * a, f.den * b)
    ELSE IF a = 0 THEN NaN
    ELSE f

(***************************************************************************)
(* _parse_svg_length                                                       *)
(***************************************************************************)
UnitLexemes == {"%", "px", "pt", "em", "ex", "in", "cm", "mm", "pc", "PX", "Pt", "EM"}

\* str.lower() of a unit lexeme
Lower(u) ==
    CASE u = "PX" -> "px"
      [] u = "Pt" -> "pt"
      [] u = "EM" -> "em"
      [] OTHER -> u

\* re.match(r"^([+-]?(?:\d+\.?\d*|\.\d+))(%|px|pt|em|ex|in|cm|mm|pc)?$", value, re.IGNORECASE):
\* the groups (num_str, unit), unit <<>> when absent, or None
LengthMatch(v) ==
    LET signed == v # <<>> /\ v[1] \in {"+", "-"}
        k == IF signed THEN 2 ELSE 1
    IN  IF Len(v) >= k /\ v[k] \in Decimals
        THEN IF Len(v) = k
             THEN [t |-> "match", num_str |-> SubSeq(v, 1, k), unit |-> <<>>]
             ELSE IF Len(v) = k + 1 /\ v[k + 1] \in UnitLexemes
             THEN [t |-> "match", num_str |-> SubSeq(v, 1, k), unit |-> <<v[k + 1]>>]
             ELSE None
        ELSE None

UnitToPixels(num, unit) ==
    CASE unit \in {"", "px"} -> num
      [] unit = "pt" -> Scale(num, 96, 72)
      [] unit = "in" -> Scale(num, 96, 1)
      [] unit = "cm" -> Scale(num, 9600, 254)
      [] unit = "mm" -> Scale(num, 960, 254)
      [] unit = "pc" -> Scale(num, 96, 6)
      [] unit = "em" -> Scale(num, 16, 1)
      [] unit = "ex" -> Scale(num, 8, 1)
      [] OTHER -> None

parse_svg_length(value) ==
    IF value = <<>> THEN None
    ELSE
      LET m == LengthMatch(Strip(value)) IN
      IF IsNone(m) THEN None
      ELSE
        LET num == PyFloat(m.num_str)
            unit == IF m.unit = <<>> THEN "" ELSE Lower(m.unit[1])
        IN  IF IsRaise(num) THEN None
            ELSE IF unit = "%" THEN None
            ELSE LET pixels == UnitToPixels(num, unit) IN
                 IF IsNone(pixels) THEN None ELSE IntRound(pixels)

(***************************************************************************)
(* _parse_viewbox                                                          *)
(***************************************************************************)
Separators == Whitespace \cup {","}

\* re.split(r"[\s,]+", s): the fields between maximal runs of separators;
\* a leading or trailing run leaves an empty field at that end
RECURSIVE SplitFields(_, _, _)
SplitFields(s, cur, inSep) ==
    IF s = <<>> THEN <<cur>>
    ELSE IF Head(s) \in Separators
    THEN IF inSep THEN SplitFields(Tail(s), cur, TRUE)
         ELSE <<cur>> \o SplitFields(Tail(s), <<>>, TRUE)
    ELSE SplitFields(Tail(s), Append(cur, Head(s)), FALSE)

ReSplit(s) == SplitFields(s, <<>>, FALSE)

\* int(round(float(part))) inside try ... except ValueError
ViewboxField(part) ==
    LET f == PyFloat(part) IN IF IsRaise(f) THEN f ELSE IntRound(f)

Pair(w, h) == [t |-> "pair", width |-> w, height |-> h]

\* the tuple (width, height), or the exception that escapes the function
parse_viewbox(viewbox) ==
    IF viewbox = <<>> THEN Pair(None, None)
    ELSE
      LET parts == ReSplit(Strip(viewbox)) IN
      IF Len(parts) # 4 THEN Pair(None, None)
      ELSE
        LET width == ViewboxField(parts[3])
            height == ViewboxField(parts[4])
        IN  IF IsRaise(width)
            THEN IF width.e = "ValueError" THEN Pair(None, None) ELSE width
            ELSE IF IsRaise(height)
            THEN IF height.e = "ValueError" THEN Pair(None, None) ELSE height
            ELSE Pair(width, height)

(***************************************************************************)
(* XML text.  The lexemes of a document:                                   *)
(*   "<svg", "<g", ...   the start of a tag, up to the end of its name     *)
(*   "</svg", ...        the start of an end tag                           *)
(*   " width=\"", ...    white space, an attribute name, = and the quote   *)
(*   "\"" ">" "/"        the closing quote, the end of a tag, the slash    *)
(*   "<!--" "--"         the delimiters of a comment (with ">" after "--") *)
(*   InvalidByte         a byte that is not UTF-8                          *)
(* and every other lexeme is character data.                               *)
(***************************************************************************)
InvalidByte == "\\xFF"
Quote == "\""

ElementNames == {"svg", "g", "foreignObject", "div", "br", "BR", "text", "tspan"}

OpenLexeme(name) == "<" \o name
CloseLexeme(name) == "</" \o name

OpenLexemes == {OpenLexeme(n) : n \in ElementNames}
CloseLexemes == {CloseLexeme(n) : n \in ElementNames}

NameOfOpen(x) == CHOOSE n \in ElementNames : OpenLexeme(n) = x
NameOfClose(x) == CHOOSE n \in ElementNames : CloseLexeme(n) = x

AttributeNames ==
    {"width", "height", "viewBox", "style", "t", "x", "y", "text-anchor", "dominant-baseline"}

\* the one namespace prefix the documents declare
Prefixes == {"p"}

\* f' {name}="' as the serializers write it
AttrLexeme(name) == " " \o name \o "=" \o Quote
PrefixedAttrLexeme(prefix, name) == " " \o prefix \o ":" \o name \o "=" \o Quote
XmlnsLexeme == " xmlns=" \o Quote
XmlnsPrefixLexeme(prefix) == " xmlns:" \o prefix \o "=" \o Quote

\* what an attribute lexeme declares: kind "attr" or "xmlns", a prefix ("" for none), a name
AttrLexemeTable ==
    {[lex |-> AttrLexeme(n), kind |-> "attr", prefix |-> "", name |-> n] : n \in AttributeNames}
    \cup {[lex |-> PrefixedAttrLexeme(p, n), kind |-> "attr", prefix |-> p, name |-> n] :
             p \in Prefixes, n \in {"t"}}
    \cup {[lex |-> XmlnsLexeme, kind |-> "xmlns", prefix |-> "", name |-> ""]}
    \cup {[lex |-> XmlnsPrefixLexeme(p), kind |-> "xmlns", prefix |-> p, name |-> ""] :
             p \in Prefixes}

AttrLexemes == {e.lex : e \in AttrLexemeTable}
AttrInfo(x) == CHOOSE e \in AttrLexemeTable : e.lex = x

\* lexemes that begin with "<": never character data, never inside an attribute value
MarkupLexemes == OpenLexemes \cup CloseLexemes \cup {"<!--"}

\* lexemes that begin with a word character (for \b)
WordLexemes ==
    Decimals \cup (UnitLexemes \ {"%"})
    \cup {"a", "b", "c", "n", "auto", "abc", "inf", "nan", "max-width: 10px", "color: red",
          "MAX-WIDTH: 10px", "max-width:5px", "max-width-x: 1", "fill: blue",
          SVG_NAMESPACE, "urn:other"}

(***************************************************************************)
(* lxml.etree.fromstring: a strict parse of the lexemes into a tree.       *)
(* A node is an element                                                    *)
(*   [kind, ns, local, nsmap, decls, attrib, text, children, tail]         *)
(* or a comment [kind, text, tail]; ns is the namespace URI (<<>> for      *)
(* none), nsmap the declarations in scope as <<[prefix, uri], ...>>, decls *)
(* those the element makes itself and attrib the attributes in document    *)
(* order as <<[ns, name, value], ...>>.                                    *)
(***************************************************************************)
ParseError == [ok |-> FALSE]

\* index of the first j >= i with s[j] = x, or 0
RECURSIVE IndexFrom(_, _, _)
IndexFrom(s, x, i) ==
    IF i > Len(s) THEN 0
    ELSE IF s[i] = x THEN i
    ELSE IndexFrom(s, x, i + 1)

\* namespace bound to a prefix by the declarations, <<>> when unbound
RECURSIVE NsLookup(_, _)
NsLookup(nsmap, prefix) ==
    IF nsmap = <<>> THEN <<>>
    ELSE IF nsmap[Len(nsmap)].prefix = prefix THEN nsmap[Len(nsmap)].uri
    ELSE NsLookup(SubSeq(nsmap, 1, Len(nsmap) - 1), prefix)

HasPrefix(nsmap, prefix) == \E k \in 1..Len(nsmap) : nsmap[k].prefix = prefix

\* the declarations of an element over those it inherits (a redeclared prefix keeps its place)
RECURSIVE MergeNsmap(_, _)
MergeNsmap(scope, decls) ==
    IF decls = <<>> THEN scope
    ELSE LET d == Head(decls) IN
         IF HasPrefix(scope, d.prefix)
         THEN MergeNsmap([k \in 1..Len(scope) |->
                             IF scope[k].prefix = d.prefix THEN d ELSE scope[k]],
                         Tail(decls))
         ELSE MergeNsmap(Append(scope, d), Tail(decls))

\* the one entity reference of the documents, as the serializer writes ">"
GtEntity == "&gt;"

\* character data and attribute values with their references resolved
Unescape(s) == [k \in 1..Len(s) |-> IF s[k] = GtEntity THEN ">" ELSE s[k]]

\* the attributes of a start tag from position i: [ok, attrs, decls, next, empty]
RECURSIVE ParseAttrs(_, _, _, _)
ParseAttrs(s, i, attrs, decls) ==
    IF i > Len(s) THEN ParseError
    ELSE IF s[i] = ">"
    THEN [ok |-> TRUE, attrs |-> attrs, decls |-> decls, next |-> i + 1, empty |-> FALSE]
    ELSE IF s[i] = "/"
    THEN IF i + 1 <= Len(s) /\ s[i + 1] = ">"
         THEN [ok |-> TRUE, attrs |-> attrs, decls |-> decls, next |-> i + 2, empty |-> TRUE]
         ELSE ParseError
    ELSE IF s[i] \in Whitespace THEN ParseAttrs(s, i + 1, attrs, decls)
    ELSE IF s[i] \in AttrLexemes
    THEN LET j == IndexFrom(s, Quote, i + 1)
             a == AttrInfo(s[i])
             value == Unescape(Slice(s, i + 1, j - 1))
         IN  IF j = 0 THEN ParseError
             ELSE IF Range(value) \cap (MarkupLexemes \cup {InvalidByte}) # {} THEN ParseError
             ELSE IF a.kind = "xmlns"
             THEN IF \E k \in 1..Len(decls) : decls[k].prefix = a.prefix
                  THEN ParseError
                  ELSE IF a.prefix # "" /\ value = <<>> THEN ParseError
                  ELSE ParseAttrs(s, j + 1, attrs,
                                  Append(decls, [prefix |-> a.prefix, uri |-> value]))
             ELSE IF \E k \in 1..Len(attrs) :
                         attrs[k].prefix = a.prefix /\ attrs[k].name = a.name
                  THEN ParseError
                  ELSE ParseAttrs(s, j + 1,
                                  Append(attrs, [prefix |-> a.prefix, name |-> a.name,
                                                 value |-> value]),
                                  decls)
    ELSE ParseError

\* an attribute's namespace: none without a prefix, else the one its prefix is bound to
ResolveAttrs(attrs, nsmap) ==
    [k \in 1..Len(attrs) |->
        [ns |-> IF attrs[k].prefix = "" THEN <<>> ELSE NsLookup(nsmap, attrs[k].prefix),
         name |-> attrs[k].name,
         value |-> attrs[k].value]]

AttrsWellFormed(attrs, nsmap) ==
    /\ \A k \in 1..Len(attrs) : attrs[k].prefix # "" => HasPrefix(nsmap, attrs[k].prefix)
    /\ LET r == ResolveAttrs(attrs, nsmap) IN
       \A k, l \in 1..Len(r) : (r[k].ns = r[l].ns /\ r[k].name = r[l].name) => k = l

\* character data appended to the element's text, or to its last child's tail
AddText(text, children, x) ==
    IF children = <<>>
    THEN [text |-> Append(text, x), children |-> children]
    ELSE [text |-> text,
          children |-> [children EXCEPT ![Len(children)].tail = Append(@, x)]]

RECURSIVE ParseElement(_, _, _)
RECURSIVE ParseContent(_, _, _, _, _, _)

\* the element whose start tag begins at i: [ok, node, next]
ParseElement(s, i, scope) ==
    LET a == ParseAttrs(s, i + 1, <<>>, <<>>) IN
    IF ~a.ok THEN ParseError
    ELSE
      LET nsmap == MergeNsmap(scope, a.decls)
          local == NameOfOpen(s[i])
          c == IF a.empty
               THEN [ok |-> TRUE, text |-> <<>>, children |-> <<>>, next |-> a.next]
               ELSE ParseContent(s, a.next, nsmap, local, <<>>, <<>>)
      IN  IF ~AttrsWellFormed(a.attrs, nsmap) THEN ParseError
          ELSE IF ~c.ok THEN ParseError
          ELSE [ok |-> TRUE,
                node |-> [kind |-> "elem",
                          ns |-> NsLookup(nsmap, ""),
                          local |-> local,
                          nsmap |-> nsmap,
                          decls |-> a.decls,
                          attrib |-> ResolveAttrs(a.attrs, nsmap),
                          text |-> c.text,
                          children |-> c.children,
                          tail |-> <<>>],
                next |-> c.next]

\* the content of element `local` from position i, up to and including its end tag
ParseContent(s, i, nsmap, local, text, children) ==
    IF i > Len(s) THEN ParseError
    ELSE IF s[i] \in CloseLexemes
    THEN IF NameOfClose(s[i]) = local /\ i + 1 <= Len(s) /\ s[i + 1] = ">"
         THEN [ok |-> TRUE, text |-> text, children |-> children, next |-> i + 2]
         ELSE ParseError
    ELSE IF s[i] \in OpenLexemes
    THEN LET e == ParseElement(s, i, nsmap) IN
         IF ~e.ok THEN ParseError
         ELSE ParseContent(s, e.next, nsmap, local, text, Append(children, e.node))
    ELSE IF s[i] = "<!--"
    THEN LET k == IndexFrom(s, "--", i + 1) IN
         IF k = 0 \/ k + 1 > Len(s) \/ s[k + 1] # ">" THEN ParseError
         ELSE IF InvalidByte \in Range(Slice(s, i + 1, k - 1)) THEN ParseError
         ELSE ParseContent(s, k + 2, nsmap, local, text,
                           Append(children, [kind |-> "comment",
                                             text |-> Slice(s, i + 1, k - 1),
                                             tail |-> <<>>]))
    ELSE IF s[i] = InvalidByte THEN ParseError
    ELSE LET t == AddText(text, children, IF s[i] = GtEntity THEN ">" ELSE s[i]) IN
         ParseContent(s, i + 1, nsmap, local, t.text, t.children)

\* comments and white space around the root element: the position after them, or 0
RECURSIVE SkipMisc(_, _)
SkipMisc(s, i) ==
    IF i > Len(s) THEN i
    ELSE IF s[i] \in Whitespace THEN SkipMisc(s, i + 1)
    ELSE IF s[i] = "<!--"
    THEN LET k == IndexFrom(s, "--", i + 1) IN
         IF k = 0 \/ k + 1 > Len(s) \/ s[k + 1] # ">" THEN 0
         ELSE IF InvalidByte \in Range(Slice(s, i + 1, k - 1)) THEN 0
         ELSE SkipMisc(s, k + 2)
    ELSE i

\* ET.fromstring(data): [ok, root]
fromstring(s) ==
    LET i == SkipMisc(s, 1) IN
    IF i = 0 \/ i > Len(s) \/ s[i] \notin OpenLexemes THEN ParseError
    ELSE LET e == ParseElement(s, i, <<>>) IN
         IF ~e.ok THEN ParseError
         ELSE IF SkipMisc(s, e.next) # Len(s) + 1 THEN ParseError
         ELSE [ok |-> TRUE, root |-> e.node]

\* data.decode("utf-8") succeeds
Decodable(s) == InvalidByte \notin Range(s)

(***************************************************************************)
(* Element access.                                                         *)
(***************************************************************************)
SvgNs == <<SVG_NAMESPACE>>

\* root.tag != f"{{{SVG_NAMESPACE}}}svg" and root.tag != "svg"
NotSvgTag(root) == ~(root.local = "svg" /\ root.ns \in {SvgNs, <<>>})

\* name in elem.attrib, for a name without namespace
HasAttr(elem, name) ==
    \E k \in 1..Len(elem.attrib) : elem.attrib[k].ns = <<>> /\ elem.attrib[k].name = name

\* elem.get(name) when the attribute is there
GetAttr(elem, name) ==
    LET k == CHOOSE k \in 1..Len(elem.attrib) :
                 elem.attrib[k].ns = <<>> /\ elem.attrib[k].name = name
    IN  elem.attrib[k].value

\* elem.set(name, value): in place when the attribute is there, else at the end
SetAttr(elem, name, value) ==
    IF HasAttr(elem, name)
    THEN [elem EXCEPT !.attrib =
             [k \in 1..Len(elem.attrib) |->
                 IF elem.attrib[k].ns = <<>> /\ elem.attrib[k].name = name
                 THEN [elem.attrib[k] EXCEPT !.value = value]
                 ELSE elem.attrib[k]]]
    ELSE [elem EXCEPT !.attrib = Append(@, [ns |-> <<>>, name |-> name, value |-> value])]

RECURSIVE SelectNot(_, _, _)
SelectNot(attrib, ns, name) ==
    IF attrib = <<>> THEN <<>>
    ELSE IF Head(attrib).ns = ns /\ Head(attrib).name = name
    THEN SelectNot(Tail(attrib), ns, name)
    ELSE <<Head(attrib)>> \o SelectNot(Tail(attrib), ns, name)

\* del elem.attrib[name]
DelAttr(elem, name) == [elem EXCEPT !.attrib = SelectNot(@, <<>>, name)]

\* str(n) of an int: the sign is a lexeme of its own
StrInt(n) == IF n < 0 THEN <<"-", ToString(0 - n)>> ELSE <<ToString(n)>>

Percent100 == <<"100", "%">>

(***************************************************************************)
(* _serialize_svg_opening_tag                                              *)
(***************************************************************************)
\* the first prefix bound to the namespace, "" when there is none
RECURSIVE PrefixFor(_, _)
PrefixFor(nsmap, uri) ==
    IF nsmap = <<>> THEN ""
    ELSE IF Head(nsmap).uri = uri /\ Head(nsmap).prefix # "" THEN Head(nsmap).prefix
    ELSE PrefixFor(Tail(nsmap), uri)

RECURSIVE SerializeNsmap(_)
SerializeNsmap(nsmap) ==
    IF nsmap = <<>> THEN <<>>
    ELSE LET d == Head(nsmap) IN
         (IF d.prefix = ""
          THEN <<XmlnsLexeme>> \o d.uri \o <<Quote>>
          ELSE <<XmlnsPrefixLexeme(d.prefix)>> \o d.uri \o <<Quote>>)
         \o SerializeNsmap(Tail(nsmap))

RECURSIVE SerializeAttrib(_, _)
SerializeAttrib(attrib, nsmap) ==
    IF attrib = <<>> THEN <<>>
    ELSE LET a == Head(attrib)
             prefix == PrefixFor(nsmap, a.ns)
         IN  (IF a.ns # <<>> /\ prefix # ""
              THEN <<PrefixedAttrLexeme(prefix, a.name)>> \o a.value \o <<Quote>>
              ELSE <<AttrLexeme(a.name)>> \o a.value \o <<Quote>>)
             \o SerializeAttrib(Tail(attrib), nsmap)

serialize_svg_opening_tag(root) ==
    LET tag_name == IF root.ns # <<>> THEN "svg" ELSE root.local IN
    <<OpenLexeme(tag_name)>>
        \o SerializeNsmap(root.nsmap)
        \o SerializeAttrib(root.attrib, root.nsmap)
        \o <<">">>

(***************************************************************************)
(* fix_svg_dimensions                                                      *)
(***************************************************************************)
\* re.search(r"<svg\b[^>]*>", text): [start, end] of the leftmost match, or None
RECURSIVE SvgTagSearch(_, _)
SvgTagSearch(text, i) ==
    IF i > Len(text) THEN None
    ELSE IF text[i] = "<svg" /\ i < Len(text) /\ text[i + 1] \notin WordLexemes
    THEN LET j == IndexFrom(text, ">", i + 1) IN
         IF j = 0 THEN None ELSE [t |-> "match", start |-> i, end |-> j]
    ELSE SvgTagSearch(text, i + 1)

\* text.find(sub, i), or 0
RECURSIVE Find(_, _, _)
Find(text, sub, i) ==
    IF i + Len(sub) - 1 > Len(text) THEN 0
    ELSE IF SubSeq(text, i, i + Len(sub) - 1) = sub THEN i
    ELSE Find(text, sub, i + 1)

\* text.replace(old, new, 1)
ReplaceFirst(text, old, new) ==
    LET i == Find(text, old, 1) IN
    IF i = 0 THEN text
    ELSE Slice(text, 1, i - 1) \o new \o Slice(text, i + Len(old), Len(text))

\* s.split(";")
RECURSIVE SplitOn(_, _, _)
SplitOn(s, sep, cur) ==
    IF s = <<>> THEN <<cur>>
    ELSE IF Head(s) = sep THEN <<cur>> \o SplitOn(Tail(s), sep, <<>>)
    ELSE SplitOn(Tail(s), sep, Append(cur, Head(s)))

\* the lexemes that begin with the characters max-width
MaxWidthLexemes == {"max-width: 10px", "max-width:5px", "max-width-x: 1"}

\* [s.strip() for s in parts if s.strip()] without those that start with "max-width"
RECURSIVE StyleParts(_)
StyleParts(parts) ==
    IF parts = <<>> THEN <<>>
    ELSE LET p == Strip(Head(parts)) IN
         IF p = <<>> \/ p[1] \in MaxWidthLexemes
         THEN StyleParts(Tail(parts))
         ELSE <<p>> \o StyleParts(Tail(parts))

\* "; ".join(parts)
RECURSIVE JoinStyle(_)
JoinStyle(parts) ==
    IF parts = <<>> THEN <<>>
    ELSE IF Len(parts) = 1 THEN parts[1]
    ELSE parts[1] \o <<";", " ">> \o JoinStyle(Tail(parts))

\* lines 211-223: the style attribute without its max-width declarations
CleanStyle(root) ==
    IF HasAttr(root, "style") /\ GetAttr(root, "style") # <<>>
    THEN LET style_parts == StyleParts(SplitOn(GetAttr(root, "style"), ";", <<>>)) IN
         IF style_parts # <<>>
         THEN SetAttr(root, "style", JoinStyle(style_parts))
         ELSE DelAttr(root, "style")
    ELSE root

\* SetDimensions overriding every height
SetDimensions_overriding(root, vb_width, vb_height) ==
    SetAttr(SetAttr(root, "width", StrInt(vb_width)), "height", StrInt(vb_height))

\* lines 203-209: width from the viewBox, height too when missing or a percentage
SetDimensions(root, vb_width, vb_height) ==
    LET r == SetAttr(root, "width", StrInt(vb_width)) IN
    IF ~HasAttr(r, "height") \/ GetAttr(r, "height") = Percent100
    THEN SetAttr(r, "height", StrInt(vb_height))
    ELSE r

\* NeedsFix without the return for a numeric width
NeedsFix_always(root) == [t |-> "bool", v |-> TRUE]

\* lines 180-185: TRUE to go on, FALSE for "already has numeric width", or a Raise
NeedsFix(root) ==
    IF HasAttr(root, "width") /\ GetAttr(root, "width") = Percent100 THEN [t |-> "bool", v |-> TRUE]
    ELSE IF ~HasAttr(root, "width") THEN [t |-> "bool", v |-> TRUE]
    ELSE LET w == parse_svg_length(GetAttr(root, "width")) IN
         IF IsRaise(w) THEN w ELSE [t |-> "bool", v |-> IsNone(w)]

\* ResolveViewBox falling back to a made-up 100 x 100 box
ResolveViewBox_fabricating(root) ==
    IF ~HasAttr(root, "viewBox") \/ GetAttr(root, "viewBox") = <<>>
    THEN Pair(PyInt(100), PyInt(100))
    ELSE LET vb == parse_viewbox(GetAttr(root, "viewBox")) IN
         IF IsRaise(vb) THEN vb
         ELSE Pair(IF IsNone(vb.width) THEN PyInt(100) ELSE vb.width,
                   IF IsNone(vb.height) THEN PyInt(100) ELSE vb.height)

\* lines 187-192: [t |-> "missing"] without a viewBox, else what _parse_viewbox gives
ResolveViewBox(root) ==
    IF ~HasAttr(root, "viewBox") \/ GetAttr(root, "viewBox") = <<>>
    THEN [t |-> "missing"]
    ELSE parse_viewbox(GetAttr(root, "viewBox"))

Return(bytes, why, tag) == [t |-> "return", v |-> bytes, why |-> why, tag |-> tag]

\* lines 225-231: the new tag in place of the first text equal to the matched one
Rewrite(text, original_tag, new_tag) ==
    Return(ReplaceFirst(text, original_tag, new_tag), "rewritten", new_tag)

\* lines 196-231: with the match of the opening tag in the text
FixTag(data, root, vb, svg_tag_match) ==
    IF IsNone(svg_tag_match) THEN Return(data, "no match", <<>>)
    ELSE Rewrite(data, SubSeq(data, svg_tag_match.start, svg_tag_match.end),
                 serialize_svg_opening_tag(
                     CleanStyle(SetDimensions(root, vb.width.v, vb.height.v))))

\* lines 187-201: with what the viewBox resolves to
FixViewBox(data, root, vb) ==
    IF IsRaise(vb) THEN vb
    ELSE IF vb.t = "missing" THEN Return(data, "no viewBox", <<>>)
    ELSE IF IsNone(vb.width) \/ IsNone(vb.height) THEN Return(data, "bad viewBox", <<>>)
    ELSE FixTag(data, root, vb, SvgTagSearch(data, 1))

\* lines 180-194: with the answer of the needs-fix test
FixWidth(data, root, needs) ==
    IF IsRaise(needs) THEN needs
    ELSE IF ~needs.v THEN Return(data, "numeric width", <<>>)
    ELSE FixViewBox(data, root, ResolveViewBox(root))

\* lines 174-185: with the parsed document
FixParsed(data, doc) ==
    IF ~doc.ok THEN Raise("XMLSyntaxError")
    ELSE IF NotSvgTag(doc.root) THEN Return(data, "not svg", <<>>)
    ELSE FixWidth(data, doc.root, NeedsFix(doc.root))

\* the body of the try block: a Return, or the exception raised in it
FixBody(data) ==
    IF ~Decodable(data) THEN Raise("UnicodeDecodeError")
    ELSE FixParsed(data, fromstring(data))

\* except Exception as ex: ... return data (lines 233-235 and 450-452)
Contained(data, r) == IF IsRaise(r) THEN Return(data, "exception", <<>>) ELSE r

\* fix_svg_dimensions without its except clause
fix_svg_dimensions_uncaught(data) == FixBody(data)

\* try: ... except Exception: return data
fix_svg_dimensions(data) == Contained(data, FixBody(data))

(***************************************************************************)
(* _extract_text_lines_from_element                                        *)
(* The text of an island is one lexeme per character.                      *)
(***************************************************************************)
Backslash == "\\"

\* the accumulators lines and current_line ("".join(current_line) kept joined)
Acc(lines, current_line) == [t |-> "acc", lines |-> lines, current_line |-> current_line]

flush_line(acc) ==
    LET text == Strip(acc.current_line) IN
    IF text # <<>> THEN Acc(Append(acc.lines, text), <<>>) ELSE Acc(acc.lines, <<>>)

\* part.split("\\n"): on the two characters backslash, n
RECURSIVE SplitOnEscape(_, _)
SplitOnEscape(s, cur) ==
    IF s = <<>> THEN <<cur>>
    ELSE IF Len(s) >= 2 /\ s[1] = Backslash /\ s[2] = "n"
    THEN <<cur>> \o SplitOnEscape(SubSeq(s, 3, Len(s)), <<>>)
    ELSE SplitOnEscape(Tail(s), Append(cur, Head(s)))

RECURSIVE FlattenSplit(_)
FlattenSplit(parts) ==
    IF parts = <<>> THEN <<>>
    ELSE SplitOnEscape(Head(parts), <<>>) \o FlattenSplit(Tail(parts))

split_on_newlines(text) == FlattenSplit(SplitOn(text, "\n", <<>>))

\* for i, part in enumerate(parts): append, and flush between the parts
RECURSIVE AppendParts(_, _)
AppendParts(acc, parts) ==
    LET a == Acc(acc.lines, acc.current_line \o Head(parts)) IN
    IF Len(parts) = 1 THEN a
    ELSE AppendParts(flush_line(a), Tail(parts))

\* if text: ... (lines 277-283 and 289-294)
AddTextParts(acc, text) ==
    IF text = <<>> THEN acc ELSE AppendParts(acc, split_on_newlines(text))

\* str.lower() of an element name
LowerName(n) == IF n = "BR" THEN "br" ELSE n

RECURSIVE process_element(_, _)
RECURSIVE ProcessChildren(_, _)

\* the accumulators after the element, or the exception raised on the way
process_element(acc, elem) ==
    IF elem.kind = "comment" THEN Raise("TypeError")
    ELSE IF LowerName(elem.local) = "br" THEN flush_line(acc)
    ELSE ProcessChildren(AddTextParts(acc, elem.text), elem.children)

ProcessChildren(acc, children) ==
    IF children = <<>> THEN acc
    ELSE LET a == process_element(acc, Head(children)) IN
         IF IsRaise(a) THEN a
         ELSE ProcessChildren(AddTextParts(a, Head(children).tail), Tail(children))

\* [t |-> "list", v |-> lines], or the exception raised
extract_text_lines_from_element(element) ==
    LET a == process_element(Acc(<<>>, <<>>), element) IN
    IF IsRaise(a) THEN a ELSE [t |-> "list", v |-> flush_line(a).lines]

(***************************************************************************)
(* Floats of the layout: exact rationals, with inf and nan.                *)
(***************************************************************************)
RInt(n) == Finite(n, 1)

RAdd(a, b) ==
    IF a.t = "nan" \/ b.t = "nan" THEN NaN
    ELSE IF a.t = "inf" /\ b.t = "inf" THEN (IF a.neg = b.neg THEN a ELSE NaN)
    ELSE IF a.t = "inf" THEN a
    ELSE IF b.t = "inf" THEN b
    ELSE Reduced(a.num * b.den + b.num * a.den, a.den * b.den)

RSub(a, b) == RAdd(a, Negate(b))

\* a <= b and a > 0 as Python compares floats (every comparison with nan is False)
RLeq(a, b) ==
    IF a.t = "nan" \/ b.t = "nan" THEN FALSE
    ELSE IF a.t = "inf" THEN a.neg \/ (b.t = "inf" /\ ~b.neg)
    ELSE IF b.t = "inf" THEN ~b.neg
    ELSE a.num * b.den <= b.num * a.den

RPositive(a) == (a.t = "inf" /\ ~a.neg) \/ (a.t = "float" /\ a.num > 0)

\* str(x) of a float with at most two decimals: "50.0", "52.5", "5.25", "inf", "nan"
FloatStr(a) ==
    IF a.t = "inf" THEN (IF a.neg THEN <<"-", "inf">> ELSE <<"inf">>)
    ELSE IF a.t = "nan" THEN <<"nan">>
    ELSE LET cents == (a.num * 100) \div a.den
             mag == IF cents < 0 THEN 0 - cents ELSE cents
             whole == ToString(mag \div 100)
             frac == mag % 100
             digits == IF frac % 10 = 0 THEN ToString(frac \div 10)
                       ELSE IF frac < 10 THEN "0" \o ToString(frac)
                       ELSE ToString(frac)
         IN  (IF cents < 0 THEN <<"-">> ELSE <<>>) \o <<whole \o "." \o digits>>

(***************************************************************************)
(* _estimate_text_width and _word_wrap_text                                *)
(***************************************************************************)
\* len(text)
RECURSIVE CharCount(_)
CharCount(text) == IF text = <<>> THEN 0 ELSE Len(Head(text)) + CharCount(Tail(text))

\* len(text) * (font_size * 0.6)
estimate_text_width(text, font_size) == Scale(font_size, CharCount(text) * 6, 10)

\* text.split(): the maximal runs of characters that are not white space
RECURSIVE SplitWords(_, _)
SplitWords(s, cur) ==
    IF s = <<>> THEN (IF cur = <<>> THEN <<>> ELSE <<cur>>)
    ELSE IF Head(s) \in Whitespace
    THEN (IF cur = <<>> THEN <<>> ELSE <<cur>>) \o SplitWords(Tail(s), <<>>)
    ELSE SplitWords(Tail(s), Append(cur, Head(s)))

\* " ".join(words)
RECURSIVE JoinWords(_)
JoinWords(words) ==
    IF words = <<>> THEN <<>>
    ELSE IF Len(words) = 1 THEN words[1]
    ELSE words[1] \o <<" ">> \o JoinWords(Tail(words))

\* the loop's variables lines, current_line and current_width
WrapState(lines, current_line, current_width) ==
    [lines |-> lines, current_line |-> current_line, current_width |-> current_width]

\* the loop as one that never starts a new line
WrapWord_packing(w, word, max_width, font_size) ==
    WrapState(w.lines, Append(w.current_line, word), RInt(0))

\* one pass of "for word in words" (lines 345-358)
WrapWord(w, word, max_width, font_size) ==
    LET word_width == estimate_text_width(word, font_size)
        space_width == estimate_text_width(<<" ">>, font_size)
        new_width == RAdd(RAdd(w.current_width,
                               IF w.current_line # <<>> THEN space_width ELSE RInt(0)),
                          word_width)
    IN  IF RLeq(new_width, max_width) \/ w.current_line = <<>>
        THEN WrapState(w.lines, Append(w.current_line, word), new_width)
        ELSE WrapState(Append(w.lines, JoinWords(w.current_line)), <<word>>, word_width)

RECURSIVE WrapLoop(_, _, _, _)
WrapLoop(w, words, max_width, font_size) ==
    IF words = <<>> THEN w
    ELSE WrapLoop(WrapWord(w, Head(words), max_width, font_size), Tail(words),
                  max_width, font_size)

\* lines 360-364
WrapFinish(w) ==
    IF w.current_line # <<>> THEN Append(w.lines, JoinWords(w.current_line)) ELSE w.lines

\* lines 328-337: the early returns, TRUE when the text is returned as it is
WrapsNothing(text, max_width, font_size) ==
    \/ RLeq(max_width, RInt(0))
    \/ RLeq(estimate_text_width(text, font_size), max_width)
    \/ SplitWords(text, <<>>) = <<>>

word_wrap_text(text, max_width, font_size) ==
    IF WrapsNothing(text, max_width, font_size) THEN <<text>>
    ELSE WrapFinish(WrapLoop(WrapState(<<>>, <<>>, RInt(0)), SplitWords(text, <<>>),
                             max_width, font_size))

(***************************************************************************)
(* lxml.etree.tostring(root, encoding="unicode")                           *)
(***************************************************************************)
\* ">" is written as a reference, in character data and in attribute values
Escape(s) == [k \in 1..Len(s) |-> IF s[k] = ">" THEN GtEntity ELSE s[k]]

RECURSIVE TostringAttrib(_, _)
TostringAttrib(attrib, nsmap) ==
    IF attrib = <<>> THEN <<>>
    ELSE LET a == Head(attrib) IN
         (IF a.ns # <<>>
          THEN <<PrefixedAttrLexeme(PrefixFor(nsmap, a.ns), a.name)>>
          ELSE <<AttrLexeme(a.name)>>)
         \o Escape(a.value) \o <<Quote>> \o TostringAttrib(Tail(attrib), nsmap)

RECURSIVE TostringNode(_)
RECURSIVE TostringNodes(_)

TostringNode(node) ==
    IF node.kind = "comment" THEN <<"<!--">> \o node.text \o <<"--", ">">>
    ELSE <<OpenLexeme(node.local)>>
         \o SerializeNsmap(node.decls)
         \o TostringAttrib(node.attrib, node.nsmap)
         \o (IF node.text = <<>> /\ node.children = <<>>
             THEN <<"/", ">">>
             ELSE <<">">> \o Escape(node.text) \o TostringNodes(node.children)
                  \o <<CloseLexeme(node.local), ">">>)

\* each child followed by its tail
TostringNodes(children) ==
    IF children = <<>> THEN <<>>
    ELSE TostringNode(Head(children)) \o Escape(Head(children).tail)
         \o TostringNodes(Tail(children))

tostring(root) == TostringNode(root)

(***************************************************************************)
(* convert_foreign_object_to_text                                          *)
(***************************************************************************)
\* a node by its path: the indices of the children to descend into
RECURSIVE NodeAt(_, _)
NodeAt(node, path) ==
    IF path = <<>> THEN node ELSE NodeAt(node.children[Head(path)], Tail(path))

\* the tree with the node at the path replaced
RECURSIVE ReplaceAt(_, _, _)
ReplaceAt(node, path, new) ==
    IF path = <<>> THEN new
    ELSE [node EXCEPT !.children[Head(path)] = ReplaceAt(@, Tail(path), new)]

IsForeignObject(node) ==
    node.kind = "elem" /\ node.ns = SvgNs /\ node.local = "foreignObject"

\* root.iter(f"{{{SVG_NAMESPACE}}}foreignObject"): the paths of the matches, in document order
RECURSIVE IterForeignObjects(_, _)
RECURSIVE IterChildren(_, _, _)

IterForeignObjects(node, path) ==
    IF node.kind = "comment" THEN <<>>
    ELSE (IF IsForeignObject(node) THEN <<path>> ELSE <<>>)
         \o IterChildren(node.children, path, 1)

IterChildren(children, path, k) ==
    IF k > Len(children) THEN <<>>
    ELSE IterForeignObjects(children[k], Append(path, k))
         \o IterChildren(children, path, k + 1)

\* an element made by ET.Element or ET.SubElement in the SVG namespace
NewElement(local, attrib, text, children) ==
    [kind |-> "elem", ns |-> SvgNs, local |-> local,
     nsmap |-> <<[prefix |-> "", uri |-> SvgNs]>>, decls |-> <<>>,
     attrib |-> attrib, text |-> text, children |-> children, tail |-> <<>>]

PlainAttr(name, value) == [ns |-> <<>>, name |-> name, value |-> value]

\* font_size = 12.0 and line_height = font_size + 2, in pixels
FontSize == Finite(120, 10)
LineHeight == RAdd(FontSize, RInt(2))

\* f"font-family: trebuchet ms, verdana, arial, sans-serif; font-size: {font_size}px; fill: #333;"
TextStyle ==
    <<"font-family: trebuchet ms, verdana, arial, sans-serif", ";", " ",
      "font-size: 12.0px", ";", " ", "fill: #333", ";">>

\* float(fo.get(name, "0"))
FloatAttr(fo, name) ==
    PyFloat(IF HasAttr(fo, name) THEN GetAttr(fo, name) ELSE <<"0">>)

RECURSIVE WrapAll(_, _)
WrapAll(lines, wrap_width) ==
    IF lines = <<>> THEN <<>>
    ELSE word_wrap_text(Head(lines), wrap_width, FontSize) \o WrapAll(Tail(lines), wrap_width)

\* lines 436-440: one tspan per wrapped line
Tspans(wrapped_lines, center_x, start_y) ==
    [i \in 1..Len(wrapped_lines) |->
        NewElement("tspan",
                   <<PlainAttr("x", FloatStr(center_x)),
                     PlainAttr("y", FloatStr(RAdd(start_y, Scale(LineHeight, i - 1, 1))))>>,
                   wrapped_lines[i], <<>>)]

\* line 406
WrapWidth(fo_width) == IF RPositive(fo_width) THEN Scale(fo_width, 95, 100) ELSE RInt(0)

\* line 418
CenterX(fo_x, fo_width) == RAdd(fo_x, Scale(fo_width, 1, 2))

\* lines 425-427, for n wrapped lines
StartY(fo_y, fo_height, n) ==
    RAdd(RAdd(fo_y, Scale(RSub(fo_height, Scale(LineHeight, n, 1)), 1, 2)),
         Scale(LineHeight, 8, 10))

\* lines 419-421
CommonAttrs(center_x) ==
    <<PlainAttr("x", FloatStr(center_x)),
      PlainAttr("text-anchor", <<"middle">>),
      PlainAttr("style", TextStyle)>>

\* lines 417-440: the text element for the wrapped lines
TextLayout(wrapped_lines, fo_x, fo_y, fo_width, fo_height) ==
    IF Len(wrapped_lines) = 1
    THEN NewElement("text",
                    CommonAttrs(CenterX(fo_x, fo_width))
                        \o <<PlainAttr("y", FloatStr(RAdd(fo_y, Scale(fo_height, 1, 2)))),
                             PlainAttr("dominant-baseline", <<"middle">>)>>,
                    wrapped_lines[1], <<>>)
    ELSE NewElement("text", CommonAttrs(CenterX(fo_x, fo_width)), <<>>,
                    Tspans(wrapped_lines, CenterX(fo_x, fo_width),
                           StartY(fo_y, fo_height, Len(wrapped_lines))))

\* lines 398-440: the text element for an island and its lines
TextElement(lines, fo_x, fo_y, fo_width, fo_height) ==
    TextLayout(WrapAll(lines, WrapWidth(fo_width)), fo_x, fo_y, fo_width, fo_height)

\* lines 399-440, with the four floats read
IslandBox(lines, fo_width, fo_height, fo_x, fo_y) ==
    IF IsRaise(fo_width) THEN fo_width
    ELSE IF IsRaise(fo_height) THEN fo_height
    ELSE IF IsRaise(fo_x) THEN fo_x
    ELSE IF IsRaise(fo_y) THEN fo_y
    ELSE [t |-> "elem", node |-> TextElement(lines, fo_x, fo_y, fo_width, fo_height)]

\* lines 395-440, with the lines extracted
IslandLines(fo, lines) ==
    IF IsRaise(lines) THEN lines
    ELSE IF lines.v = <<>> THEN [t |-> "skip"]
    ELSE IslandBox(lines.v, FloatAttr(fo, "width"), FloatAttr(fo, "height"),
                   FloatAttr(fo, "x"), FloatAttr(fo, "y"))

\* lines 393-409 for one island: [t |-> "skip"], the text element, or the exception raised
IslandText(fo) == IslandLines(fo, extract_text_lines_from_element(fo))

IsProperPrefix(p, q) == Len(p) < Len(q) /\ SubSeq(q, 1, Len(p)) = p

\* the loop's tree, with the paths of the islands replaced in it
LoopState(root, replaced) == [t |-> "tree", root |-> root, replaced |-> replaced]

\* lines 393-445 for the island at the path: the loop's state after it, or the exception.
\* An island is read from the tree as parsed: the islands inside it come later in
\* the list.  One inside an island already replaced is changed out of the tree.
ConvertIsland(state, path, e) ==
    IF IsRaise(e) THEN e
    ELSE IF e.t = "skip" \/ path = <<>> THEN state
    ELSE IF \E r \in state.replaced : IsProperPrefix(r, path) THEN state
    ELSE LoopState(ReplaceAt(state.root, path, e.node), state.replaced \cup {path})

\* for fo in foreign_objects: the state after the loop, or the exception raised
RECURSIVE ConvertLoop(_, _, _)
ConvertLoop(parsed, state, paths) ==
    IF paths = <<>> \/ IsRaise(state) THEN state
    ELSE ConvertLoop(parsed,
                     ConvertIsland(state, Head(paths), IslandText(NodeAt(parsed, Head(paths)))),
                     Tail(paths))

\* line 448
Serialized(r) == IF IsRaise(r) THEN r ELSE Return(tostring(r.root), "serialized", <<>>)

\* ConvertIslands without the early return of lines 387-388
ConvertIslands_serializing(data, root, foreign_objects) ==
    Serialized(ConvertLoop(root, LoopState(root, {}), foreign_objects))

\* lines 387-448, with the islands found
ConvertIslands(data, root, foreign_objects) ==
    IF foreign_objects = <<>> THEN Return(data, "no foreignObject", <<>>)
    ELSE Serialized(ConvertLoop(root, LoopState(root, {}), foreign_objects))

\* lines 383-448, with the parsed document
ConvertParsed(data, doc) ==
    IF ~doc.ok THEN Raise("XMLSyntaxError")
    ELSE ConvertIslands(data, doc.root, IterForeignObjects(doc.root, <<>>))

\* the body of the try block: a Return, or the exception raised in it
ConvertBody(data) == ConvertParsed(data, fromstring(data))

\* try: ... except Exception: return data
convert_foreign_object_to_text(data) == Contained(data, ConvertBody(data))

(***************************************************************************)
(* The documents handed to the pipeline.                                   *)
(***************************************************************************)
\* name="value" with its leading space
Attr(name, value) == <<AttrLexeme(name)>> \o value \o <<Quote>>

Spaced(fields) == <<fields[1], " ", fields[2], " ", fields[3], " ", fields[4]>>

\* the start of the root element: its name and its default namespace
RootStarts ==
    {<<"<svg">> \o <<XmlnsLexeme, SVG_NAMESPACE, Quote>>,
     <<"<svg">>,
     <<"<svg">> \o <<XmlnsLexeme, "urn:other", Quote>>,
     <<"<g">> \o <<XmlnsLexeme, SVG_NAMESPACE, Quote>>}

CloseOf(start) == IF start[1] = "<g" THEN <<"</g", ">">> ELSE <<"</svg", ">">>

Widths ==
    {<<>>, Attr("width", Percent100), Attr("width", <<"10">>), Attr("width", <<"auto">>),
     Attr("width", <<"50", "%">>), Attr("width", <<"10", "px">>),
     Attr("width", <<HugeNumeral>>)}

Heights ==
    {<<>>, Attr("height", Percent100), Attr("height", <<"5">>), Attr("height", <<"auto">>)}

GoodViewBox == Attr("viewBox", Spaced(<<"0", "0", "10", "20">>))

ViewBoxes ==
    {<<>>, GoodViewBox,
     Attr("viewBox", <<"0", " ", "0", " ", "10">>),
     Attr("viewBox", Spaced(<<"0", "0", "inf", "20">>)),
     Attr("viewBox", <<"0", ",", "0", ",", "2.5", ",", "3.5">>),
     Attr("viewBox", Spaced(<<"0", "0", "abc", "5">>)),
     Attr("viewBox", <<>>)}

Styles ==
    {<<>>,
     Attr("style", <<"max-width: 10px", ";">>),
     Attr("style", <<"max-width: 10px", ";", " ", "color: red", ";">>),
     Attr("style", <<"color: red">>),
     Attr("style", <<>>),
     Attr("style", <<"color: red", ";", "max-width:5px", ";", " ", "fill: blue">>),
     Attr("style", <<"max-width-x: 1", ";", " ", "color: red">>)}

\* an attribute with ">" in its value, and one in a namespace with its declaration
Extras ==
    {<<>>,
     Attr("t", <<"a", ">", "b">>),
     <<XmlnsPrefixLexeme("p"), "urn:other", Quote, PrefixedAttrLexeme("p", "t"), "a", Quote>>}

\* a comment before the root that mentions a tag
Prologs == {<<>>, <<"<!--", "<svg", ">", "--", ">">>}

\* islands: a foreignObject in a group, with text after it, and one with text before it
\* and an element right after it
Island(attrs, content) ==
    <<"<g", ">", "<foreignObject">> \o attrs \o <<">">> \o content
        \o <<"</foreignObject", ">", "c", "</g", ">">>

Box == Attr("x", <<"10">>) \o Attr("y", <<"20">>) \o Attr("width", <<"100">>)
           \o Attr("height", <<"20">>)

Islands ==
    {Island(Box, <<"<div", ">", "a", " ", "b", "<br", "/", ">", "c", "</div", ">">>),
     Island(Attr("width", <<"5">>), <<"a", "a", " ", "b", Backslash, "n", "c">>),
     Island(Attr("width", <<"abc">>), <<"a">>),
     Island(Box, <<"a", "<!--", "b", "--", ">">>),
     Island(Box, <<" ", "<br", "/", ">">>),
     <<"<g", ">", "b", "<foreignObject">> \o Box \o <<">", "a", "</foreignObject", ">",
       "<g", "/", ">", "</g", ">">>}

\* what follows the attributes of the root: "/>", or ">" body "</svg>"; one body repeats
\* the root's own opening tag
Contents(tag, close) ==
    {<<"/", ">">>,
     <<">">> \o close,
     <<">">> \o tag \o <<">">> \o close \o close}
    \cup {<<">">> \o i \o close : i \in Islands}

\* every root, width, height and viewBox
DimensionDocuments ==
    {r \o w \o h \o v \o <<">">> \o CloseOf(r) :
        r \in RootStarts, w \in Widths, h \in Heights, v \in ViewBoxes}

\* the renderer's root with its surroundings
SurgeryDocuments ==
    UNION {{p \o tag \o c : c \in Contents(tag, CloseOf(tag))} :
           p \in Prologs,
           tag \in {<<"<svg", XmlnsLexeme, SVG_NAMESPACE, Quote>> \o w \o h \o GoodViewBox \o st \o e :
                       w \in {Attr("width", Percent100), Attr("width", <<"10">>)},
                       h \in {<<>>, Attr("height", <<"5">>)},
                       st \in Styles, e \in Extras}}

\* how many lexemes a truncation drops from the end, at most
MaxCut == 3

BaseDocuments ==
    {<<"<svg", XmlnsLexeme, SVG_NAMESPACE, Quote>> \o Attr("width", Percent100) \o GoodViewBox
        \o c : c \in Contents(<<"<svg">>, <<"</svg", ">">>)}

\* truncated documents and documents with a byte that is not UTF-8
DamagedDocuments ==
    {SubSeq(d, 1, Len(d) - k) : d \in BaseDocuments, k \in 1..MaxCut}
    \cup {<<InvalidByte>> \o d : d \in BaseDocuments}
    \cup {d \o <<InvalidByte>> : d \in BaseDocuments}
    \cup {<<>>}

Documents == DimensionDocuments \cup SurgeryDocuments \cup DamagedDocuments

(***************************************************************************)
(* The pipeline: renderer bytes -> fix_svg_dimensions and                  *)
(* convert_foreign_object_to_text, in any order, any number of times.      *)
(***************************************************************************)
\* how many transforms one run applies, at most
MaxOps == 2

IdleHelper == fKind = "idle" /\ fIn = <<>> /\ fOut = Pending
IdleWrap == wPc = "idle" /\ wRest = <<>> /\ wAcc = <<>>
IdlePipeline ==
    original = <<>> /\ before = <<>> /\ current = <<>> /\ ops = <<>> /\ outcome = Pending

Init ==
    /\ original \in Documents
    /\ before = original
    /\ current = original
    /\ ops = <<>>
    /\ outcome = Pending
    /\ IdleHelper
    /\ IdleWrap

\* a call that returns hands its bytes on; one that raises ends the run
Apply(op, r) ==
    /\ outcome.t # "raise"
    /\ Len(ops) < MaxOps
    /\ before' = current
    /\ current' = IF IsRaise(r) THEN current ELSE r.v
    /\ outcome' = r
    /\ ops' = Append(ops, op)
    /\ UNCHANGED <<original, helperVars, wrapVars>>

Normalize == Apply("fix", fix_svg_dimensions(current))

Convert == Apply("convert", convert_foreign_object_to_text(current))

Next == Normalize \/ Convert

Spec == Init /\ [][Next]_vars

(***************************************************************************)
(* The Unit & Geometry Resolver on its own: one call of _parse_svg_length  *)
(* or _parse_viewbox on a string.                                          *)
(***************************************************************************)
\* the strings of at most n lexemes of an alphabet
RECURSIVE Strings(_, _)
Strings(alphabet, n) ==
    IF n = 0 THEN {<<>>}
    ELSE LET shorter == Strings(alphabet, n - 1) IN
         shorter \cup {Append(x, a) : x \in shorter, a \in alphabet}

\* how many lexemes a length string has, at most
MaxLengthLexemes == 3

LengthAlphabet ==
    {"+", "-", " ", "10", "2.5", ".5", HugeNumeral, "px", "%", "pt", "EM", "auto"}

\* the length strings of at most n lexemes
LengthStrings(n) == Strings(LengthAlphabet, n)

\* how many fields a viewBox string has, at most
MaxFields == 5

ViewBoxFieldSet == {<<"0">>, <<"10.5">>, <<"-", "5">>, <<"inf">>, <<"nan">>, <<"10", "px">>}

ViewBoxSeparators == {<<" ">>, <<",">>, <<",", " ">>}

RECURSIVE JoinFields(_, _)
JoinFields(fields, sep) ==
    IF fields = <<>> THEN <<>>
    ELSE IF Len(fields) = 1 THEN fields[1]
    ELSE fields[1] \o sep \o JoinFields(Tail(fields), sep)

\* at most n fields joined by one kind of separator, with white space or a comma in
\* front or not
ViewBoxStrings(n) ==
    {lead \o JoinFields(fields, sep) :
        lead \in {<<>>, <<" ">>, <<",">>},
        sep \in ViewBoxSeparators,
        fields \in Strings(ViewBoxFieldSet, n)}

InitGeometry ==
    /\ \/ fKind = "length" /\ fIn \in LengthStrings(MaxLengthLexemes)
       \/ fKind = "viewbox" /\ fIn \in ViewBoxStrings(MaxFields)
    /\ fOut = Pending
    /\ IdlePipeline
    /\ IdleWrap

ParseLength ==
    /\ fKind = "length"
    /\ fOut = Pending
    /\ fOut' = parse_svg_length(fIn)
    /\ UNCHANGED <<fKind, fIn, pipelineVars, wrapVars>>

ParseViewBox ==
    /\ fKind = "viewbox"
    /\ fOut = Pending
    /\ fOut' = parse_viewbox(fIn)
    /\ UNCHANGED <<fKind, fIn, pipelineVars, wrapVars>>

NextGeometry == ParseLength \/ ParseViewBox

SpecGeometry == InitGeometry /\ [][NextGeometry]_vars

(***************************************************************************)
(* The Foreign-Markup Text Extractor on its own: one call of               *)
(* _extract_text_lines_from_element on a subtree.                          *)
(***************************************************************************)
XhtmlNs == <<"http://www.w3.org/1999/xhtml">>

Element(ns, local, text, children, tail) ==
    [kind |-> "elem", ns |-> ns, local |-> local, nsmap |-> <<>>, decls |-> <<>>,
     attrib |-> <<>>, text |-> text, children |-> children, tail |-> tail]

Comment(text, tail) == [kind |-> "comment", text |-> text, tail |-> tail]

\* the text of a node: one lexeme per character
IslandTexts ==
    {<<>>, <<"a">>, <<" ", "a", " ">>, <<"a", "\n", "b">>, <<"a", Backslash, "n", "b">>,
     <<Backslash>>}

IslandTails == {<<>>, <<"c">>, <<"n">>, <<" ", "\n">>}

\* the children of an island: elements with text, line breaks of every spelling (one
\* with text of its own), a comment, and an element around a line break
IslandChildren ==
    {Element(XhtmlNs, "div", t, <<>>, u) : t \in IslandTexts \ {<<>>}, u \in {<<>>, <<"c">>}}
    \cup {Element(ns, n, <<>>, <<>>, u) :
             ns \in {<<>>, XhtmlNs}, n \in {"br", "BR"}, u \in IslandTails}
    \cup {Element(XhtmlNs, "br", <<"a">>, <<>>, <<>>),
          Comment(<<"a">>, <<"c">>),
          Element(XhtmlNs, "div", <<"a">>,
                  <<Element(XhtmlNs, "br", <<>>, <<>>, <<"b">>)>>, <<"c">>)}

\* how many children an island has, at most
MaxChildren == 2

\* the islands of at most n children
IslandTrees(n) ==
    {Element(SvgNs, "foreignObject", t, c, <<>>) :
        t \in IslandTexts, c \in Strings(IslandChildren, n)}

InitExtract ==
    /\ fKind = "extract"
    /\ fIn \in IslandTrees(MaxChildren)
    /\ fOut = Pending
    /\ IdlePipeline
    /\ IdleWrap

Extract ==
    /\ fKind = "extract"
    /\ fOut = Pending
    /\ fOut' = extract_text_lines_from_element(fIn)
    /\ UNCHANGED <<fKind, fIn, pipelineVars, wrapVars>>

NextExtract == Extract

SpecExtract == InitExtract /\ [][NextExtract]_vars

(***************************************************************************)
(* The Text Layout Engine on its own: _word_wrap_text, one pass of its     *)
(* loop at a time.                                                         *)
(***************************************************************************)
\* how many characters a text to wrap has, at most
MaxTextLen == 6

\* the texts of at most n characters
WrapTexts(n) == Strings({"a", "b", " "}, n)

\* max_width in pixels: nothing, one, two, two and a half, three and four characters
\* of the 12 px font, a negative one, and the floats that are no numbers
WrapWidths ==
    {RInt(0), Finite(72, 10), Finite(144, 10), RInt(18), Finite(216, 10), Finite(288, 10),
     RInt(-1), Inf, NaN}

WrapFontSizes == {FontSize, RInt(0), Inf, NaN}

InitWrap ==
    /\ fKind = "wrap"
    /\ fIn \in [text : WrapTexts(MaxTextLen), max_width : WrapWidths, font_size : WrapFontSizes]
    /\ fOut = Pending
    /\ wPc = "start"
    /\ wRest = <<>>
    /\ wAcc = <<>>
    /\ IdlePipeline

\* lines 328-342
WrapStart ==
    /\ wPc = "start"
    /\ IF WrapsNothing(fIn.text, fIn.max_width, fIn.font_size)
       THEN /\ fOut' = [t |-> "list", v |-> <<fIn.text>>]
            /\ wPc' = "done"
            /\ UNCHANGED <<wRest, wAcc>>
       ELSE /\ wRest' = SplitWords(fIn.text, <<>>)
            /\ wAcc' = WrapState(<<>>, <<>>, RInt(0))
            /\ wPc' = "loop"
            /\ UNCHANGED fOut
    /\ UNCHANGED <<fKind, fIn, pipelineVars>>

\* one pass of the for loop
WrapIterate ==
    /\ wPc = "loop"
    /\ wRest # <<>>
    /\ wAcc' = WrapWord(wAcc, Head(wRest), fIn.max_width, fIn.font_size)
    /\ wRest' = Tail(wRest)
    /\ UNCHANGED <<wPc, helperVars, pipelineVars>>

\* lines 360-364
WrapReturn ==
    /\ wPc = "loop"
    /\ wRest = <<>>
    /\ fOut' = [t |-> "list", v |-> WrapFinish(wAcc)]
    /\ wPc' = "done"
    /\ UNCHANGED <<wRest, wAcc, fKind, fIn, pipelineVars>>

NextWrap == WrapStart \/ WrapIterate \/ WrapReturn

SpecWrap == InitWrap /\ [][NextWrap]_vars

(***************************************************************************)
(* What the claims speak of.                                               *)
(***************************************************************************)
LastOp == IF ops = <<>> THEN "none" ELSE ops[Len(ops)]

Parsed(bytes) == fromstring(bytes)

\* the root of the bytes handed to the last transform
RootBefore == Parsed(before).root

\* the span of the root element's opening tag in parseable bytes: first and last lexeme
RootTagSpan(bytes) ==
    LET i == SkipMisc(bytes, 1) IN
    [first |-> i, last |-> ParseAttrs(bytes, i + 1, <<>>, <<>>).next - 1]

\* new equals old outside old's span first..last
DiffersOnlyWithin(old, new, first, last) ==
    LET after == Len(old) - last IN
    /\ Len(new) >= (first - 1) + after
    /\ Slice(new, 1, first - 1) = Slice(old, 1, first - 1)
    /\ Slice(new, Len(new) - after + 1, Len(new)) = Slice(old, last + 1, Len(old))

\* the value of an attribute as an opening tag spells it, <<>> when it is not there
TagAttr(tag, name) ==
    LET i == IndexFrom(tag, AttrLexeme(name), 1) IN
    IF i = 0 THEN <<>> ELSE Slice(tag, i + 1, IndexFrom(tag, Quote, i + 1) - 1)

\* no foreignObject of the SVG namespace in the subtree
RECURSIVE NoIsland(_)
NoIsland(node) ==
    \/ node.kind = "comment"
    \/ /\ ~(node.local = "foreignObject" /\ node.ns = SvgNs)
       /\ \A k \in 1..Len(node.children) : NoIsland(node.children[k])

WidthIsNumeric(root) ==
    HasAttr(root, "width") /\ IsInt(parse_svg_length(GetAttr(root, "width")))

ViewBoxResolves(root) ==
    /\ HasAttr(root, "viewBox")
    /\ LET vb == parse_viewbox(GetAttr(root, "viewBox")) IN
       vb.t = "pair" /\ IsInt(vb.width) /\ IsInt(vb.height)

(***************************************************************************)
(* C1.  Neither transform raises, whatever the bytes; bytes that cannot be *)
(* decoded or parsed are returned as they are, by each transform and so by *)
(* every chain of them.                                                    *)
(***************************************************************************)
Unreadable(bytes) == ~Decodable(bytes) \/ ~Parsed(bytes).ok

C1_FaultContainment ==
    ops # <<>> =>
        /\ outcome.t = "return"
        /\ Unreadable(before) => current = before
        /\ Unreadable(original) => current = original

C1_Witness ==
    /\ ops = <<"fix", "convert">>
    /\ original # <<>>
    /\ ~Parsed(original).ok
    /\ outcome.why = "exception"

(***************************************************************************)
(* C2.  fix_svg_dimensions is idempotent: a second pass returns what the   *)
(* first returned.                                                         *)
(***************************************************************************)
C2_Idempotent ==
    (Len(ops) >= 2 /\ ops[Len(ops)] = "fix" /\ ops[Len(ops) - 1] = "fix") => current = before

(***************************************************************************)
(* C3.  When fix_svg_dimensions changes a document whose root has          *)
(* width="100%" and a viewBox that resolves, the output differs from the   *)
(* input only within the root element's opening tag.                       *)
(***************************************************************************)
C3_OnlyRootTagChanges ==
    (/\ LastOp = "fix"
     /\ current # before
     /\ Parsed(before).ok
     /\ HasAttr(RootBefore, "width")
     /\ GetAttr(RootBefore, "width") = Percent100
     /\ ViewBoxResolves(RootBefore))
    => LET span == RootTagSpan(before) IN
       DiffersOnlyWithin(before, current, span.first, span.last)

(***************************************************************************)
(* C4.  convert_foreign_object_to_text returns a parseable document        *)
(* without foreignObject islands as it is, before any serialization.       *)
(***************************************************************************)
C4_NoIslandNoChange ==
    (LastOp = "convert" /\ Parsed(before).ok /\ NoIsland(RootBefore))
    => (current = before /\ outcome.why = "no foreignObject")

\* ... a document that serialization would have changed
C4_Witness ==
    /\ LastOp = "convert"
    /\ Parsed(before).ok
    /\ NoIsland(RootBefore)
    /\ tostring(RootBefore) # before

(***************************************************************************)
(* C8 as stated.  fix_svg_dimensions changes a document only when the      *)
(* root's width is "100%" or is present and does not parse as a numeric    *)
(* length; with a width that is present and numeric it changes nothing.    *)
(***************************************************************************)
C8_ChangesOnlyPresentWidth ==
    (LastOp = "fix" /\ Parsed(before).ok) =>
        /\ current # before =>
              /\ HasAttr(RootBefore, "width")
              /\ \/ GetAttr(RootBefore, "width") = Percent100
                 \/ IsNone(parse_svg_length(GetAttr(RootBefore, "width")))
        /\ WidthIsNumeric(RootBefore) => current = before

(***************************************************************************)
(* C8 as amended.  fix_svg_dimensions changes a document only when the     *)
(* root's width is absent, is "100%" or is present and does not parse as a *)
(* numeric length; with a width that is present and numeric it changes     *)
(* nothing.                                                                *)
(***************************************************************************)
C8_ChangesOnlyUnsizedWidth ==
    (LastOp = "fix" /\ Parsed(before).ok) =>
        /\ current # before =>
              \/ ~HasAttr(RootBefore, "width")
              \/ GetAttr(RootBefore, "width") = Percent100
              \/ IsNone(parse_svg_length(GetAttr(RootBefore, "width")))
        /\ WidthIsNumeric(RootBefore) => current = before

C8_Witness ==
    /\ LastOp = "fix"
    /\ Parsed(before).ok
    /\ current # before
    /\ ~HasAttr(RootBefore, "width")

(***************************************************************************)
(* C9.  fix_svg_dimensions makes up no dimensions: without a viewBox, with *)
(* a viewBox that does not resolve to a width and a height, or with a root *)
(* that is not svg, it returns its input, whatever width and height are.   *)
(***************************************************************************)
C9_NeverFabricates ==
    (/\ LastOp = "fix"
     /\ Parsed(before).ok
     /\ (NotSvgTag(RootBefore) \/ ~ViewBoxResolves(RootBefore)))
    => current = before

C9_Witness ==
    /\ LastOp = "fix"
    /\ Parsed(before).ok
    /\ ~NotSvgTag(RootBefore)
    /\ HasAttr(RootBefore, "width")
    /\ GetAttr(RootBefore, "width") = Percent100
    /\ HasAttr(RootBefore, "viewBox")
    /\ ~ViewBoxResolves(RootBefore)

NumericField(f) ==
    \/ Len(f) = 1 /\ f[1] \in Decimals
    \/ Len(f) = 2 /\ f[1] \in {"+", "-"} /\ f[2] \in Decimals

\* the fields of a viewBox string
FieldsOf(viewbox) == ReSplit(Strip(viewbox))

FourNumericFields(viewbox) ==
    /\ Len(FieldsOf(viewbox)) = 4
    /\ \A k \in 1..4 : NumericField(FieldsOf(viewbox)[k])

\* a length that is a number with one of the units, or with none
RecognisedLength(v) == ~IsNone(LengthMatch(Strip(v)))

HasPercentUnit(v) == RecognisedLength(v) /\ LengthMatch(Strip(v)).unit = <<"%">>

\* C5: _parse_svg_length and _parse_viewbox never raise; a length with a percent unit or
\* an unrecognised token gives None; a viewBox that does not split into exactly four
\* numeric fields gives (None, None), and one of exactly four numeric fields gives its
\* 3rd and 4th fields rounded to integers.
C5_UnknownNeverRaised ==
    fOut # Pending =>
        /\ ~IsRaise(fOut)
        /\ fKind = "length" =>
              /\ IsNone(fOut) \/ IsInt(fOut)
              /\ (HasPercentUnit(fIn) \/ ~RecognisedLength(fIn)) => IsNone(fOut)
        /\ fKind = "viewbox" =>
              IF FourNumericFields(fIn)
              THEN fOut = Pair(IntRound(PyFloat(FieldsOf(fIn)[3])),
                               IntRound(PyFloat(FieldsOf(fIn)[4])))
              ELSE fOut = Pair(None, None)

(***************************************************************************)
(* The extractor's claims.                                                 *)
(***************************************************************************)
\* a line boundary among the characters of a subtree
Break == "<br>"

\* the characters of one text node, a boundary for every newline and every backslash-n
RECURSIVE TextTokens(_)
TextTokens(text) ==
    IF text = <<>> THEN <<>>
    ELSE IF Head(text) = "\n" THEN <<Break>> \o TextTokens(Tail(text))
    ELSE IF Len(text) >= 2 /\ text[1] = Backslash /\ text[2] = "n"
    THEN <<Break>> \o TextTokens(SubSeq(text, 3, Len(text)))
    ELSE <<Head(text)>> \o TextTokens(Tail(text))

\* the subtree in document order: the element's text, then each child and its tail;
\* a br element is a boundary where it stands
RECURSIVE SubtreeTokens(_)
RECURSIVE ChildrenTokens(_)
SubtreeTokens(node) ==
    IF node.kind = "comment" THEN <<>>
    ELSE (IF LowerName(node.local) = "br" THEN <<Break>> ELSE <<>>)
         \o TextTokens(node.text) \o ChildrenTokens(node.children)

ChildrenTokens(children) ==
    IF children = <<>> THEN <<>>
    ELSE SubtreeTokens(Head(children)) \o TextTokens(Head(children).tail)
         \o ChildrenTokens(Tail(children))

\* the trimmed, non-empty runs between boundaries
RECURSIVE LinesBetween(_, _)
LinesBetween(tokens, cur) ==
    LET line == Strip(cur)
        done == IF line = <<>> THEN <<>> ELSE <<line>>
    IN  IF tokens = <<>> THEN done
        ELSE IF Head(tokens) = Break THEN done \o LinesBetween(Tail(tokens), <<>>)
        ELSE LinesBetween(Tail(tokens), Append(cur, Head(tokens)))

\* C6: _extract_text_lines_from_element returns the text of the subtree in document
\* order as trimmed, non-empty lines, with a line boundary at every br element, every
\* newline and every backslash-n, and nowhere else.
C6_LinesOfSubtree ==
    (fKind = "extract" /\ fOut # Pending) =>
        fOut = [t |-> "list", v |-> LinesBetween(SubtreeTokens(fIn), <<>>)]

(***************************************************************************)
(* The layout engine's claims.                                             *)
(***************************************************************************)
WrapDone == fKind = "wrap" /\ wPc = "done"

\* the steps a call has left at most: none once it has returned
StepsLeft ==
    CASE wPc = "start" -> CharCount(fIn.text) + 2
      [] wPc = "loop" -> Len(wRest) + 1
      [] OTHER -> 0

\* a call that has not returned is where one of the steps applies (WrapStart at "start";
\* WrapIterate or WrapReturn, whichever way wRest is, at "loop"), and every step leaves
\* fewer steps
WrapRuns == (fKind = "wrap" /\ wPc # "done") => wPc \in {"start", "loop"}

WrapAdvances == StepsLeft' < StepsLeft

\* a > b, which no comparison with nan is
RGreater(a, b) == a.t # "nan" /\ b.t # "nan" /\ ~RLeq(a, b)

\* maxWidth > 0 and the whole text does not fit: it is wider than maxWidth
MustWrap ==
    /\ RPositive(fIn.max_width)
    /\ RGreater(estimate_text_width(fIn.text, fIn.font_size), fIn.max_width)

WordsOf(line) == SplitWords(line, <<>>)

RECURSIVE WordsOfLines(_)
WordsOfLines(lines) ==
    IF lines = <<>> THEN <<>> ELSE WordsOf(Head(lines)) \o WordsOfLines(Tail(lines))

\* the width of a line as the loop sums it: word, then space and word, and so on
RECURSIVE RunningWidth(_, _)
RunningWidth(words, font_size) ==
    IF Len(words) = 1 THEN estimate_text_width(words[1], font_size)
    ELSE RAdd(RAdd(RunningWidth(SubSeq(words, 1, Len(words) - 1), font_size),
                   estimate_text_width(<<" ">>, font_size)),
              estimate_text_width(words[Len(words)], font_size))

WordsKept(lines) == WordsOfLines(lines) = WordsOf(fIn.text)

NoEmptyLine(lines) == \A i \in 1..Len(lines) : WordsOf(lines[i]) # <<>>

OversizedWordAlone(lines) ==
    (Len(WordsOf(fIn.text)) = 1
        /\ ~RLeq(estimate_text_width(WordsOf(fIn.text)[1], fIn.font_size), fIn.max_width))
    => Len(lines) = 1

\* C7 as stated: _word_wrap_text terminates, and whenever maxWidth > 0 and the whole
\* text does not fit, the output keeps the words in order, has a word on every line,
\* keeps the estimated width of every line of two or more words within maxWidth, and
\* starts a new line only where the word, with one space, would not fit on the line
\* before; a single word wider than maxWidth comes back as one line.
C7_GreedyWheneverTextDoesNotFit ==
    /\ []WrapRuns
    /\ [][WrapAdvances]_vars
    /\ [](WrapDone =>
            LET lines == fOut.v IN
            /\ OversizedWordAlone(lines)
            /\ MustWrap =>
                 /\ WordsKept(lines)
                 /\ NoEmptyLine(lines)
                 /\ \A i \in 1..Len(lines) :
                       Len(WordsOf(lines[i])) >= 2 =>
                          RLeq(estimate_text_width(lines[i], fIn.font_size),
                               fIn.max_width)
                 /\ \A i \in 2..Len(lines) :
                       ~RLeq(estimate_text_width(
                                lines[i - 1] \o <<" ">> \o WordsOf(lines[i])[1],
                                fIn.font_size),
                             fIn.max_width))

\* C7 amended: _word_wrap_text terminates, and whenever maxWidth > 0, the whole text
\* does not fit and the text has a word, the output keeps the words in order, has a
\* word on every line, keeps the running width of every line of two or more words (its
\* word widths and one space width a gap, summed as the loop sums them) within
\* maxWidth, and starts a new line only where the running width of the line before,
\* one space and the word together exceed maxWidth; a text of white space alone comes
\* back unchanged as its one line, and so does a single word wider than maxWidth.
C7_GreedyWhenTextHasWords ==
    /\ []WrapRuns
    /\ [][WrapAdvances]_vars
    /\ [](WrapDone =>
            LET lines == fOut.v IN
            /\ OversizedWordAlone(lines)
            /\ WordsOf(fIn.text) = <<>> => lines = <<fIn.text>>
            /\ (MustWrap /\ WordsOf(fIn.text) # <<>>) =>
                 /\ WordsKept(lines)
                 /\ NoEmptyLine(lines)
                 /\ \A i \in 1..Len(lines) :
                       Len(WordsOf(lines[i])) >= 2 =>
                          RLeq(RunningWidth(WordsOf(lines[i]), fIn.font_size),
                               fIn.max_width)
                 /\ \A i \in 2..Len(lines) :
                       ~RLeq(RunningWidth(Append(WordsOf(lines[i - 1]),
                                                 WordsOf(lines[i])[1]),
                                          fIn.font_size),
                             fIn.max_width))

\* a text of three words wrapped into a line of two words and a line of one
C7_Witness ==
    /\ WrapDone
    /\ MustWrap
    /\ Len(fOut.v) = 2
    /\ Len(WordsOf(fOut.v[1])) = 2
    /\ Len(WordsOf(fIn.text)) = 3

(***************************************************************************)
(* The style of the rewritten opening tag.                                 *)
(***************************************************************************)
\* the opening tag spells the attribute
TagHasAttr(tag, name) == IndexFrom(tag, AttrLexeme(name), 1) # 0

\* the declarations of a style value: what stands between the semicolons, without the
\* white space around it and without what is empty
Declarations(style) ==
    LET pieces == SplitOn(style, ";", <<>>) IN
    SelectSeq([k \in 1..Len(pieces) |-> Strip(pieces[k])], LAMBDA d : d # <<>>)

\* the declarations of the property max-width
MaxWidthDeclarations == {<<"max-width: 10px">>, <<"max-width:5px">>}

\* the declarations of a style value that are not of max-width, in their order
OtherDeclarations(style) ==
    SelectSeq(Declarations(style), LAMBDA d : d \notin MaxWidthDeclarations)

\* C11: whenever fix_svg_dimensions rewrites the opening tag of a root that carries a
\* style attribute, the declarations of the new tag's style are exactly the declarations
\* of the root's style that are not of max-width, in their original order, and when none
\* is left the new tag has no style attribute at all (not an empty one)
C11_StyleWithoutMaxWidth ==
    (LastOp = "fix" /\ outcome.why = "rewritten" /\ HasAttr(RootBefore, "style")) =>
        IF OtherDeclarations(GetAttr(RootBefore, "style")) = <<>>
        THEN ~TagHasAttr(outcome.tag, "style")
        ELSE /\ TagHasAttr(outcome.tag, "style")
             /\ Declarations(TagAttr(outcome.tag, "style"))
                    = OtherDeclarations(GetAttr(RootBefore, "style"))

(***************************************************************************)
(* The tree the converter serializes.                                      *)
(***************************************************************************)
\* the tree of the bytes the last transform returned
RootAfter == Parsed(current).root

\* the island has at least one extracted line
HasLines(fo) == extract_text_lines_from_element(fo).v # <<>>

\* new is old with every island that has a line replaced, where it stood, by one text
\* element of the SVG namespace, and with nothing else changed: the islands without a
\* line, the other children, their order, and the text before, between and after them
RECURSIVE IslandsReplaced(_, _)
IslandsReplaced(old, new) ==
    IF old.kind = "comment" THEN new = old
    ELSE IF IsForeignObject(old)
    THEN IF HasLines(old)
         THEN /\ new.kind = "elem" /\ new.ns = SvgNs /\ new.local = "text"
              /\ new.tail = old.tail
         ELSE new = old
    ELSE /\ new.kind = "elem" /\ new.ns = old.ns /\ new.local = old.local
         /\ new.attrib = old.attrib /\ new.text = old.text /\ new.tail = old.tail
         /\ Len(new.children) = Len(old.children)
         /\ \A k \in 1..Len(old.children) : IslandsReplaced(old.children[k], new.children[k])

\* C12: in the tree convert_foreign_object_to_text serializes, every island with at least
\* one extracted line has been replaced by exactly one text element at the same index
\* among its parent's children, the other children and the text between them are
\* unchanged and in their order, and every island without a line is still there, untouched
C12_IslandsReplacedInPlace ==
    (LastOp = "convert" /\ outcome.why = "serialized") => IslandsReplaced(RootBefore, RootAfter)

====
